---- MODULE Spec2Model ----
(***************************************************************************)
(* Model of app.py: the rule-based intent classifier (extract_name,        *)
(* extract_order_number, match_intent), the response generator              *)
(* (get_personalized_response, get_quick_replies) and the session store     *)
(* behind the /chat, /history and /clear handlers.                          *)
(*                                                                          *)
(* A Python str is a sequence of one-character strings; a code point        *)
(* outside ASCII is one element named by its code point ("U+1F44B").        *)
(* An optional value is None (the empty tuple) or Some(v) (a 1-tuple).      *)
(***************************************************************************)
EXTENDS Integers, Sequences, FiniteSets, TLC

VARIABLES
    responses,      \* the intent catalog loaded at import time (app.py:13-32)
    conversations,  \* the process-wide session store (app.py:35)
    now,            \* the clock datetime.now() reads
    request,        \* the request the last handler call served, with the
                    \* random.random() of a /chat call
    reply,          \* the JSON body the last handler call returned
    turns,          \* history: per stored session, the turns served on it
    heap,           \* the session dicts created while requests overlap
    index,          \* which dict of the heap each stored session id refers to
    threads         \* the frame of chat() in each worker thread

vars == <<responses, conversations, now, request, reply, turns, heap, index, threads>>

-----------------------------------------------------------------------------
(* Optional values.                                                         *)

None == <<>>

Some(v) == <<v>>

\* Python truthiness of an optional str: None and "" are both falsy.
Truthy(opt) == opt # None /\ opt[1] # <<>>

-----------------------------------------------------------------------------
(* Characters and the str methods the code uses.                            *)

LowerLetters ==
    <<"a","b","c","d","e","f","g","h","i","j","k","l","m",
      "n","o","p","q","r","s","t","u","v","w","x","y","z">>

UpperLetters ==
    <<"A","B","C","D","E","F","G","H","I","J","K","L","M",
      "N","O","P","Q","R","S","T","U","V","W","X","Y","Z">>

Range(s) == {s[i] : i \in DOMAIN s}

Digits == {"0","1","2","3","4","5","6","7","8","9"}

\* The class \w of re: letters, digits and the underscore.
WordChars == Range(LowerLetters) \cup Range(UpperLetters) \cup Digits \cup {"_"}

\* The class \s of re, which is also what str.strip and str.split cut at.
Whitespace == {" ", "\t", "\n"}

LetterIndex(letters, c) == CHOOSE i \in DOMAIN letters : letters[i] = c

\* str.lower on one character.
LowerChar(c) ==
    IF c \in Range(UpperLetters) THEN LowerLetters[LetterIndex(UpperLetters, c)] ELSE c

\* str.upper on one character.
UpperChar(c) ==
    IF c \in Range(LowerLetters) THEN UpperLetters[LetterIndex(LowerLetters, c)] ELSE c

\* str.lower
Lower(s) == [i \in DOMAIN s |-> LowerChar(s[i])]

\* str.capitalize: first character upper-cased, the rest lower-cased.
Capitalize(s) == [i \in DOMAIN s |-> IF i = 1 THEN UpperChar(s[i]) ELSE LowerChar(s[i])]

\* str.strip
Strip(s) ==
    LET keep == {i \in DOMAIN s : s[i] \notin Whitespace}
    IN  IF keep = {} THEN <<>>
        ELSE SubSeq(s, CHOOSE i \in keep : \A j \in keep : i <= j,
                       CHOOSE i \in keep : \A j \in keep : j <= i)

\* str.split with no argument, as the set the code builds from it: the maximal
\* runs of non-whitespace characters.
SplitSet(s) ==
    LET IsStart(i) == s[i] \notin Whitespace /\ (i = 1 \/ s[i-1] \in Whitespace)
        IsEnd(j)   == s[j] \notin Whitespace /\ (j = Len(s) \/ s[j+1] \in Whitespace)
    IN  { SubSeq(s, i, CHOOSE j \in i..Len(s) : IsEnd(j) /\ \A k \in i..j : s[k] \notin Whitespace)
            : i \in {i \in DOMAIN s : IsStart(i)} }

\* The literal lit occurs in s at position i.
LitAt(s, i, lit) ==
    /\ i >= 1
    /\ i + Len(lit) - 1 <= Len(s)
    /\ \A k \in DOMAIN lit : s[i + k - 1] = lit[k]

\* The same under re.IGNORECASE.
LitAtNoCase(s, i, lit) ==
    /\ i >= 1
    /\ i + Len(lit) - 1 <= Len(s)
    /\ \A k \in DOMAIN lit : LowerChar(s[i + k - 1]) = LowerChar(lit[k])

\* Python's "pattern in message".
Contains(s, lit) == \E i \in 1..(Len(s) + 1) : LitAt(s, i, lit)

\* The first position at or after i whose character is not in class: where a
\* greedy class* or class+ that starts at i stops.
RECURSIVE RunEnd(_, _, _)
RunEnd(s, i, class) ==
    IF i <= Len(s) /\ s[i] \in class THEN RunEnd(s, i + 1, class) ELSE i

Min(S) == CHOOSE x \in S : \A y \in S : x <= y

\* The zero-width \b of re just before position i (1..Len(s)+1).
IsWordAt(s, i) == i >= 1 /\ i <= Len(s) /\ s[i] \in WordChars

WordBoundary(s, i) == IsWordAt(s, i - 1) # IsWordAt(s, i)

\* re.search(r'\b' + re.escape(pattern) + r'\b', message) finds a match.
WordBoundarySearch(s, lit) ==
    \E i \in 1..(Len(s) + 1) :
        LitAt(s, i, lit) /\ WordBoundary(s, i) /\ WordBoundary(s, i + Len(lit))

-----------------------------------------------------------------------------
(* Regular-expression search as re.search does it: the leftmost position at *)
(* which the pattern matches, with greedy repetition.                       *)

\* at[i] is None where the pattern does not match at position i, else
\* Some(group 1).
Search(at) ==
    LET hits == {i \in DOMAIN at : at[i] # None}
    IN  IF hits = {} THEN None ELSE at[Min(hits)]

\* The first element of a sequence of optionals that is not None.
RECURSIVE FirstSome(_)
FirstSome(opts) ==
    IF opts = <<>> THEN None
    ELSE IF Head(opts) # None THEN Head(opts)
    ELSE FirstSome(Tail(opts))

-----------------------------------------------------------------------------
(* extract_name                                                             *)

NamePat1 ==
    <<"m","y"," ","n","a","m","e"," ","i","s"," ">>

NamePat2 ==
    <<"i"," ","a","m"," ">>

NamePat3 ==
    <<"i","'","m"," ">>

NamePat4 ==
    <<"c","a","l","l"," ","m","e"," ">>

NamePat5 ==
    <<"t","h","i","s"," ","i","s"," ">>

\* The patterns list, in order: each is a literal followed by (\w+).
NamePatterns == <<NamePat1, NamePat2, NamePat3, NamePat4, NamePat5>>

\* lit(\w+) matched at position i of s: the greedy \w+ capture.
NameAt(s, i, lit) ==
    LET g == i + Len(lit)
    IN  IF LitAt(s, i, lit) /\ IsWordAt(s, g)
        THEN Some(SubSeq(s, g, RunEnd(s, g, WordChars) - 1))
        ELSE None

extract_name(message) ==
    LET m   == Lower(message)
        hit == FirstSome([p \in DOMAIN NamePatterns |->
                   Search([i \in DOMAIN m |-> NameAt(m, i, NamePatterns[p])])])
    IN  IF Truthy(hit) THEN Some(Capitalize(hit[1])) ELSE None

-----------------------------------------------------------------------------
(* extract_order_number                                                     *)

LitOrder ==
    <<"o","r","d","e","r">>

LitHash ==
    <<"#">>

LitORD ==
    <<"O","R","D">>

LitDash ==
    <<"-">>

LitTracking ==
    <<"t","r","a","c","k","i","n","g">>

\* The 5 of \d{5,}.
MinOrderDigits == 5

\* (\d{5,}) matched at position c: the whole run of digits, if long enough.
DigitCapture(s, c) ==
    LET d == RunEnd(s, c, Digits)
    IN  IF d - c >= MinOrderDigits THEN Some(SubSeq(s, c, d - 1)) ELSE None

\* keyword\s*#?\s*(\d{5,}) under re.IGNORECASE, matched at position i.
KeywordRefAt(s, i, keyword) ==
    IF ~LitAtNoCase(s, i, keyword) THEN None
    ELSE LET a == RunEnd(s, i + Len(keyword), Whitespace)
             b == IF LitAt(s, a, LitHash) THEN a + 1 ELSE a
             c == RunEnd(s, b, Whitespace)
         IN  DigitCapture(s, c)

\* #(\d{5,}) matched at position i.
HashRefAt(s, i) ==
    IF LitAt(s, i, LitHash) THEN DigitCapture(s, i + 1) ELSE None

\* ORD[-]?(\d{5,}) under re.IGNORECASE, matched at position i.
OrdRefAt(s, i) ==
    IF ~LitAtNoCase(s, i, LitORD) THEN None
    ELSE LET a == i + Len(LitORD)
             b == IF LitAt(s, a, LitDash) THEN a + 1 ELSE a
         IN  DigitCapture(s, b)

extract_order_number(message) ==
    FirstSome(<< Search([i \in DOMAIN message |-> KeywordRefAt(message, i, LitOrder)]),
                 Search([i \in DOMAIN message |-> HashRefAt(message, i)]),
                 Search([i \in DOMAIN message |-> OrdRefAt(message, i)]),
                 Search([i \in DOMAIN message |-> KeywordRefAt(message, i, LitTracking)]) >>)

-----------------------------------------------------------------------------
(* The intent catalog: responses, an ordered mapping (a Python dict keeps   *)
(* insertion order) from intent name to its patterns and response pool.     *)
(* An entry is a record; the entry of "default" has no patterns field.      *)

P_hello ==
    <<"h","e","l","l","o">>

P_hi ==
    <<"h","i">>

P_hey ==
    <<"h","e","y">>

P_good_morning ==
    <<"g","o","o","d"," ","m","o","r","n","i","n","g">>

P_good_afternoon ==
    <<"g","o","o","d"," ","a","f","t","e","r","n","o","o","n">>

P_good_evening ==
    <<"g","o","o","d"," ","e","v","e","n","i","n","g">>

P_greetings ==
    <<"g","r","e","e","t","i","n","g","s">>

P_return ==
    <<"r","e","t","u","r","n">>

P_refund ==
    <<"r","e","f","u","n","d">>

P_exchange ==
    <<"e","x","c","h","a","n","g","e">>

P_send_back ==
    <<"s","e","n","d"," ","b","a","c","k">>

R_greeting ==
    <<"H","e","l","l","o","!"," ","U+1F44B"," ","H","o","w"," ","c","a","n",
      " ","I"," ","h","e","l","p"," ","y","o","u"," ","t","o","d","a","y","?">>

R_return ==
    <<"Y","o","u"," ","c","a","n"," ","r","e","t","u","r","n"," ","i","t","e",
      "m","s"," ","w","i","t","h","i","n"," ","3","0"," ","d","a","y","s"," ",
      "o","f"," ","p","u","r","c","h","a","s","e",".">>

R_default ==
    <<"I","'","m"," ","n","o","t"," ","s","u","r","e"," ","a","b","o","u","t",
      " ","t","h","a","t","."," ","C","a","n"," ","y","o","u"," ","r","e","p",
      "h","r","a","s","e","?">>

\* The catalog built when responses.json is not found.
FallbackResponses ==
    << [intent    |-> "greeting",
        patterns  |-> <<P_hello, P_hi, P_hey, P_good_morning, P_good_afternoon,
                        P_good_evening>>,
        responses |-> <<R_greeting>>],
       [intent    |-> "return",
        patterns  |-> <<P_return, P_refund, P_exchange, P_send_back>>,
        responses |-> <<R_return>>],
       [intent    |-> "default",
        responses |-> <<R_default>>] >>

P_hours ==
    <<"h","o","u","r","s">>

P_open ==
    <<"o","p","e","n">>

P_shipping ==
    <<"s","h","i","p","p","i","n","g">>

P_delivery ==
    <<"d","e","l","i","v","e","r","y">>

P_payment ==
    <<"p","a","y","m","e","n","t">>

P_pay ==
    <<"p","a","y">>

P_contact ==
    <<"c","o","n","t","a","c","t">>

P_phone ==
    <<"p","h","o","n","e">>

P_money_back ==
    <<"m","o","n","e","y"," ","b","a","c","k">>

P_thanks ==
    <<"t","h","a","n","k","s">>

P_thank_you ==
    <<"t","h","a","n","k"," ","y","o","u">>

P_bye ==
    <<"b","y","e">>

P_goodbye ==
    <<"g","o","o","d","b","y","e">>

R_hours1 ==
    <<"W","e"," ","a","r","e"," ","o","p","e","n"," ","9","-","5",".">>

R_hours2 ==
    <<"O","p","e","n"," ","d","a","i","l","y",","," ","9"," ","t","o"," ","5",
      ".">>

R_shipping1 ==
    <<"W","e"," ","s","h","i","p"," ","w","o","r","l","d","w","i","d","e",".">>

R_shipping2 ==
    <<"S","h","i","p","p","i","n","g"," ","t","a","k","e","s"," ","3","-","5",
      " ","d","a","y","s",".">>

R_payment ==
    <<"W","e"," ","a","c","c","e","p","t"," ","c","a","r","d","s",".">>

R_contact ==
    <<"E","m","a","i","l"," ","u","s",".">>

R_refund ==
    <<"R","e","f","u","n","d","s"," ","t","a","k","e"," ","5"," ","d","a","y",
      "s",".">>

R_thanks ==
    <<"Y","o","u","'","r","e"," ","w","e","l","c","o","m","e","!">>

R_goodbye ==
    <<"G","o","o","d","b","y","e","!">>

R_hello2 ==
    <<"H","i"," ","t","h","e","r","e","!">>

\* A catalog as json.load returns it from a responses.json that defines the
\* intents get_quick_replies and priority_intents name.
LoadedResponses ==
    << [intent    |-> "greeting",
        patterns  |-> <<P_hello, P_hi, P_hey>>,
        responses |-> <<R_greeting, R_hello2>>],
       [intent    |-> "hours",
        patterns  |-> <<P_hours, P_open>>,
        responses |-> <<R_hours1, R_hours2>>],
       [intent    |-> "thanks",
        patterns  |-> <<P_thanks, P_thank_you>>,
        responses |-> <<R_thanks>>],
       [intent    |-> "shipping",
        patterns  |-> <<P_shipping, P_delivery>>,
        responses |-> <<R_shipping1, R_shipping2>>],
       [intent    |-> "return",
        patterns  |-> <<P_return, P_send_back>>,
        responses |-> <<R_return>>],
       [intent    |-> "refund",
        patterns  |-> <<P_refund, P_money_back>>,
        responses |-> <<R_refund>>],
       [intent    |-> "payment",
        patterns  |-> <<P_payment, P_pay>>,
        responses |-> <<R_payment>>],
       [intent    |-> "contact",
        patterns  |-> <<P_contact, P_phone>>,
        responses |-> <<R_contact>>],
       [intent    |-> "goodbye",
        patterns  |-> <<P_bye, P_goodbye>>,
        responses |-> <<R_goodbye>>],
       [intent    |-> "default",
        responses |-> <<R_default>>] >>

\* "intent in responses"
InCatalog(catalog, intent) == \E i \in DOMAIN catalog : catalog[i].intent = intent

\* responses[intent]
Entry(catalog, intent) ==
    catalog[CHOOSE i \in DOMAIN catalog : catalog[i].intent = intent]

\* data.get('patterns', [])
PatternsOf(entry) == IF "patterns" \in DOMAIN entry THEN entry.patterns ELSE <<>>

-----------------------------------------------------------------------------
(* match_intent                                                             *)

priority_intents == <<"return", "refund", "shipping", "payment", "contact">>

greeting_patterns == <<P_hello, P_hi, P_hey, P_greetings>>

\* Lines 118-124: some pattern of a priority intent has all its words among
\* the message's words.
PriorityHit(catalog, intent, words) ==
    /\ InCatalog(catalog, intent)
    /\ \E pattern \in Range(PatternsOf(Entry(catalog, intent))) :
           SplitSet(pattern) \subseteq words

\* A faulty SubstringHit: the priority intents are not skipped, so their
\* patterns also match as substrings.
SubstringHitAnyIntent(entry, message) ==
    /\ entry.intent # "default"
    /\ \E pattern \in Range(PatternsOf(entry)) :
           WordBoundarySearch(message, pattern) \/ Contains(message, pattern)

\* Lines 127-137: some pattern of another intent is found in the message.
SubstringHit(entry, message) ==
    /\ entry.intent # "default"
    /\ entry.intent \notin Range(priority_intents)
    /\ \E pattern \in Range(PatternsOf(entry)) :
           WordBoundarySearch(message, pattern) \/ Contains(message, pattern)

\* A faulty KeywordIntent: the catalog loop runs before the priority loop.
KeywordIntentCatalogFirst(catalog, msg) ==
    LET words    == SplitSet(msg)
        priority == {i \in DOMAIN priority_intents :
                        PriorityHit(catalog, priority_intents[i], words)}
        others   == {i \in DOMAIN catalog : SubstringHit(catalog[i], msg)}
    IN  IF others # {} THEN catalog[Min(others)].intent
        ELSE IF priority # {} THEN priority_intents[Min(priority)]
        ELSE IF \E g \in Range(greeting_patterns) : Contains(msg, g) THEN "greeting"
        ELSE "default"

\* Lines 110-144: the catalog's patterns, the greeting words, then "default";
\* msg is the lower-cased, stripped message.
KeywordIntent(catalog, msg) ==
    LET words    == SplitSet(msg)
        priority == {i \in DOMAIN priority_intents :
                        PriorityHit(catalog, priority_intents[i], words)}
        others   == {i \in DOMAIN catalog : SubstringHit(catalog[i], msg)}
    IN  IF priority # {} THEN priority_intents[Min(priority)]
        ELSE IF others # {} THEN catalog[Min(others)].intent
        ELSE IF \E g \in Range(greeting_patterns) : Contains(msg, g) THEN "greeting"
        ELSE "default"

\* A faulty match_intent: the greeting check is the last resort, with no
\* 'default' after it.
match_intent_without_default(catalog, message) ==
    LET msg  == Strip(Lower(message))
        kind == KeywordIntent(catalog, msg)
    IN  IF Truthy(extract_name(msg)) THEN "name_intro"
        ELSE IF Truthy(extract_order_number(msg)) THEN "order_tracking"
        ELSE IF kind = "default" THEN "greeting"
        ELSE kind

\* A faulty match_intent: the order number is looked for before the name.
match_intent_order_first(catalog, message) ==
    LET msg == Strip(Lower(message))
    IN  IF Truthy(extract_order_number(msg)) THEN "order_tracking"
        ELSE IF Truthy(extract_name(msg)) THEN "name_intro"
        ELSE KeywordIntent(catalog, msg)

\* A faulty match_intent: a message no rule fires on is classified 'unknown'.
match_intent_unknown(catalog, message) ==
    LET msg  == Strip(Lower(message))
        kind == KeywordIntent(catalog, msg)
    IN  IF Truthy(extract_name(msg)) THEN "name_intro"
        ELSE IF Truthy(extract_order_number(msg)) THEN "order_tracking"
        ELSE IF kind = "default" THEN "unknown"
        ELSE kind

\* match_intent(message), with responses as the module-level catalog.
match_intent_in(catalog, message) ==
    LET msg == Strip(Lower(message))
    IN  IF Truthy(extract_name(msg)) THEN "name_intro"
        ELSE IF Truthy(extract_order_number(msg)) THEN "order_tracking"
        ELSE KeywordIntent(catalog, msg)

-----------------------------------------------------------------------------
(* The messages of the model, and the classifier and the extractors          *)
(* tabulated over them: each is computed once per message.                   *)

M_i_am_al ==
    <<"i"," ","a","m"," ","a","l">>

M_call_me_bo ==
    <<"c","a","l","l"," ","m","e"," ","b","o">>

M_order ==
    <<"o","r","d","e","r"," ","#","1","2","3","4","5">>

M_hi ==
    <<"h","i">>

M_empty ==
    <<>>

M_hello ==
    <<"h","e","l","l","o">>

M_my_name_is_Sam ==
    <<"m","y"," ","n","a","m","e"," ","i","s"," ","S","a","m">>

M_track_order ==
    <<"t","r","a","c","k"," ","o","r","d","e","r"," ","#","1","2","3","4","5",
      "6">>

M_this_is_order ==
    <<"t","h","i","s"," ","i","s"," ","o","r","d","e","r"," ","#","1","2","3",
      "4","5">>

M_im_al_ord ==
    <<"i","'","m"," ","a","l"," ","O","R","D","-","7","7","7","7","7">>

M_hash ==
    <<"#","5","4","3","2","1">>

M_tracking ==
    <<"t","r","a","c","k","i","n","g"," ","5","5","5","5","5">>

M_ord_return ==
    <<"O","R","D","-","7","7","7","7","7"," ","r","e","t","u","r","n">>

M_refund ==
    <<"i"," ","w","a","n","t"," ","a"," ","r","e","f","u","n","d">>

M_returns ==
    <<"r","e","t","u","r","n","s","?">>

M_shipping ==
    <<"s","h","i","p","p","i","n","g">>

M_short_order ==
    <<"o","r","d","e","r"," ","#","1","2","3","4">>

M_HI_THERE ==
    <<" ","H","i"," ","T","H","E","R","E">>

M_thanks ==
    <<"t","h","a","n","k","s">>

M_what ==
    <<"w","h","a","t","?">>

\* Messages on which several rules of match_intent fire, or on which a
\* priority pattern occurs only inside a longer word or with its words apart.
M_shipping_hours ==
    <<"s","h","i","p","p","i","n","g"," ","h","o","u","r","s">>

M_hello_thanks ==
    <<"h","e","l","l","o"," ","t","h","a","n","k","s">>

M_refund_return ==
    <<"r","e","f","u","n","d"," ","r","e","t","u","r","n">>

M_send_it_back ==
    <<"s","e","n","d"," ","i","t"," ","b","a","c","k">>

M_prepayment ==
    <<"p","r","e","p","a","y","m","e","n","t">>

\* The messages of the session engine's runs.
EngineMessages == {M_i_am_al, M_order, M_hi}

\* The messages the classifier and the response generator are run on.
ClassifyMessages ==
    EngineMessages \cup
    {M_empty, M_hello, M_my_name_is_Sam, M_call_me_bo, M_track_order,
     M_this_is_order, M_im_al_ord, M_hash, M_tracking, M_ord_return, M_refund,
     M_returns, M_shipping, M_short_order, M_HI_THERE, M_thanks, M_what}

ResolveMessages ==
    {M_shipping_hours, M_hello_thanks, M_refund_return, M_send_it_back,
     M_prepayment}

\* The messages of the model.
Messages == ClassifyMessages \cup ResolveMessages

\* The catalogs the response generator is run on.
ClassifyCatalogs == {FallbackResponses, LoadedResponses}

\* The same intents in the opposite order, as another responses.json would
\* list them.
ReorderedResponses ==
    [i \in 1..Len(LoadedResponses) |-> LoadedResponses[Len(LoadedResponses) + 1 - i]]

\* A catalog with the 'default' entry only.
BareResponses == <<[intent |-> "default", responses |-> <<R_default>>]>>

Catalogs == ClassifyCatalogs \cup {ReorderedResponses, BareResponses}

\* match_intent(message) for each catalog and message.
Classified ==
    [catalog \in Catalogs |-> [m \in Messages |-> match_intent_in(catalog, m)]]

\* extract_name(message) for each message.
Names == [m \in Messages |-> extract_name(m)]

\* extract_order_number(message) for each message.
OrderNumbers == [m \in Messages |-> extract_order_number(m)]

\* Which rules of match_intent fire on a message, each taken alone: the two
\* extractors, the priority intents whose pattern has all its words among
\* the message's words, the positions of the other catalog intents and the
\* names of all catalog intents with a pattern inside the message, and the
\* greeting words.
Rules(catalog, message) ==
    LET msg   == Strip(Lower(message))
        words == SplitSet(msg)
        found == {i \in DOMAIN catalog :
                     \E pattern \in Range(PatternsOf(catalog[i])) :
                         Contains(msg, pattern)}
    IN  [name      |-> extract_name(msg) # None,
         order     |-> extract_order_number(msg) # None,
         priority  |-> {i \in DOMAIN priority_intents :
                           \E j \in DOMAIN catalog :
                               /\ catalog[j].intent = priority_intents[i]
                               /\ \E pattern \in Range(PatternsOf(catalog[j])) :
                                      \A w \in SplitSet(pattern) : w \in words},
         others    |-> {i \in found :
                           catalog[i].intent \notin
                               {"default"} \cup Range(priority_intents)},
         substring |-> {catalog[i].intent : i \in found},
         greeting  |-> \E g \in Range(greeting_patterns) : Contains(msg, g)]

Fired == [catalog \in Catalogs |-> [m \in Messages |-> Rules(catalog, m)]]

\* The intent names match_intent can return under a catalog.
IntentNames(catalog) ==
    {"name_intro", "order_tracking", "greeting", "default"}
        \cup {catalog[i].intent : i \in DOMAIN catalog}

\* No rule of match_intent fires on the message: no name, no order number, no
\* catalog pattern found by either kind of matching, no greeting word.
NoRuleFires(catalog, message) ==
    LET msg == Strip(Lower(message))
    IN  /\ extract_name(msg) = None
        /\ extract_order_number(msg) = None
        /\ \A i \in DOMAIN catalog :
               \A pattern \in Range(PatternsOf(catalog[i])) :
                   /\ ~(SplitSet(pattern) \subseteq SplitSet(msg))
                   /\ ~Contains(msg, pattern)
        /\ \A g \in Range(greeting_patterns) : ~Contains(msg, g)

Unmatched ==
    [catalog \in Catalogs |-> {m \in Messages : NoRuleFires(catalog, m)}]

-----------------------------------------------------------------------------
(* analyze_sentiment. TextBlob is an external scorer: its polarity for the  *)
(* message is an input, in hundredths (-100..100), or None when it raises.  *)

\* polarity > 0.3
PositiveThreshold == 30

\* polarity < -0.3
NegativeThreshold == -30

analyze_sentiment(polarity) ==
    IF polarity = None THEN "neutral"
    ELSE IF polarity[1] > PositiveThreshold THEN "positive"
    ELSE IF polarity[1] < NegativeThreshold THEN "negative"
    ELSE "neutral"

-----------------------------------------------------------------------------
(* get_quick_replies                                                        *)

SUPPORT_PHONE == "1-800-123-4567"

quick_replies_map ==
    [greeting |-> <<"Store hours", "Return policy", "Shipping info", "Contact us">>,
     hours    |-> <<"Weekend hours", "Holiday hours", "Location hours">>,
     return   |-> <<"Start a return", "Return policy", "Exchange item", "Refund status">>,
     shipping |-> <<"Track my order", "Shipping cost", "Delivery time", "Free shipping">>,
     payment  |-> <<"Credit card", "PayPal", "Installments", "Gift card">>,
     contact  |-> <<SUPPORT_PHONE, "Email support", "Live chat", "Call me">>,
     thanks   |-> <<"You're welcome!", "Any other questions?", "Have a great day!">>,
     goodbye  |-> <<"Thanks for chatting!", "Come back soon!", "Rate your experience">>,
     default  |-> <<"Store hours", "Return policy", "Shipping info", "Contact us">>]

\* A faulty get_quick_replies: an intent without an entry gets no replies
\* (a plain .get(intent, []) in place of the 'default' fallback).
get_quick_replies_without_fallback(intent) ==
    IF intent \in DOMAIN quick_replies_map
    THEN quick_replies_map[intent]
    ELSE <<>>

get_quick_replies(intent) ==
    IF intent \in DOMAIN quick_replies_map
    THEN quick_replies_map[intent]
    ELSE quick_replies_map["default"]

-----------------------------------------------------------------------------
(* get_personalized_response. rnd is what the random module yields during   *)
(* the call: rnd.choice selects the element random.choice returns, rnd.draw *)
(* is random.random() in tenths.                                            *)

NameGreetHead ==
    <<"N","i","c","e"," ","t","o"," ","m","e","e","t"," ","y","o","u",","," ">>

NameGreetTail ==
    <<"!"," ","U+1F389"," ","H","o","w"," ","c","a","n"," ","I"," ","h","e",
      "l","p"," ","y","o","u"," ","t","o","d","a","y","?">>

OrderHead ==
    <<"L","e","t"," ","m","e"," ","c","h","e","c","k"," ","o","r","d","e","r",
      " ","#">>

OrderTail ==
    <<" ","f","o","r"," ","y","o","u",".",".","."," ","U+1F4E6"," ","I","t",
      "'","s"," ","c","u","r","r","e","n","t","l","y"," ","b","e","i","n","g",
      " ","p","r","o","c","e","s","s","e","d"," ","a","n","d"," ","w","i","l",
      "l"," ","s","h","i","p"," ","w","i","t","h","i","n"," ","2"," ","b","u",
      "s","i","n","e","s","s"," ","d","a","y","s",".">>

CommaSpace ==
    <<","," ">>

\* random.random() > 0.5
PersonalizeThreshold == 5

\* random.choice(pool)
Choice(pool, k) == pool[(k % Len(pool)) + 1]

\* response[0].lower() + response[1:]
LowerFirst(response) ==
    [i \in DOMAIN response |-> IF i = 1 THEN LowerChar(response[i]) ELSE response[i]]

\* A faulty PoolResponse: the prefix is applied from a draw of 0.5 on.
PoolResponseAtThreshold(catalog, intent, session_data, rnd) ==
    LET pool     == IF intent # "default" /\ InCatalog(catalog, intent)
                    THEN Entry(catalog, intent).responses
                    ELSE Entry(catalog, "default").responses
        response == Choice(pool, rnd.choice)
    IN  IF Truthy(session_data.name) /\ rnd.draw >= PersonalizeThreshold
        THEN session_data.name[1] \o CommaSpace \o LowerFirst(response)
        ELSE response

\* Lines 179-191: a response from the intent's pool, or from the default
\* pool, then the optional "<name>, " prefix.
PoolResponse(catalog, intent, session_data, rnd) ==
    LET pool     == IF intent # "default" /\ InCatalog(catalog, intent)
                    THEN Entry(catalog, intent).responses
                    ELSE Entry(catalog, "default").responses
        response == Choice(pool, rnd.choice)
    IN  IF Truthy(session_data.name) /\ rnd.draw > PersonalizeThreshold
        THEN session_data.name[1] \o CommaSpace \o LowerFirst(response)
        ELSE response

\* A faulty get_personalized_response: the order number is not recorded.
get_personalized_response_forgets_order(intent, session_data, user_message, rnd) ==
    LET name         == Names[user_message]
        order_number == OrderNumbers[user_message]
    IN  IF intent = "name_intro" /\ Truthy(name)
        THEN [response     |-> NameGreetHead \o name[1] \o NameGreetTail,
              session_data |-> [session_data EXCEPT !.name = name]]
        ELSE IF intent = "order_tracking" /\ Truthy(order_number)
        THEN [response     |-> OrderHead \o order_number[1] \o OrderTail,
              session_data |-> session_data]
        ELSE [response     |-> PoolResponse(responses, intent, session_data, rnd),
              session_data |-> session_data]

\* A faulty get_personalized_response: the name is assigned whatever the
\* extraction returned, so a turn without a name unsets it.
get_personalized_response_unsets_name(intent, session_data, user_message, rnd) ==
    LET name         == Names[user_message]
        order_number == OrderNumbers[user_message]
        seen         == [session_data EXCEPT !.name = name]
    IN  IF intent = "name_intro" /\ Truthy(name)
        THEN [response     |-> NameGreetHead \o name[1] \o NameGreetTail,
              session_data |-> seen]
        ELSE IF intent = "order_tracking" /\ Truthy(order_number)
        THEN [response     |-> OrderHead \o order_number[1] \o OrderTail,
              session_data |-> [seen EXCEPT !.last_order = order_number]]
        ELSE [response     |-> PoolResponse(responses, intent, seen, rnd),
              session_data |-> seen]

\* The result is the returned text and session_data as the call leaves it.
get_personalized_response(intent, session_data, user_message, rnd) ==
    LET name         == Names[user_message]
        order_number == OrderNumbers[user_message]
    IN  IF intent = "name_intro" /\ Truthy(name)
        THEN [response     |-> NameGreetHead \o name[1] \o NameGreetTail,
              session_data |-> [session_data EXCEPT !.name = name]]
        ELSE IF intent = "order_tracking" /\ Truthy(order_number)
        THEN [response     |-> OrderHead \o order_number[1] \o OrderTail,
              session_data |-> [session_data EXCEPT !.last_order = order_number]]
        ELSE [response     |-> PoolResponse(responses, intent, session_data, rnd),
              session_data |-> session_data]

-----------------------------------------------------------------------------
(* The handlers. A dict is a function; a JSON body is a record.             *)

EmptyDict == [k \in {} |-> None]

\* data.get(key, default)
Get(data, key, default) == IF key \in DOMAIN data THEN data[key] ELSE default

\* d[key] = value
Put(d, key, value) ==
    [k \in DOMAIN d \cup {key} |-> IF k = key THEN value ELSE d[k]]

\* del d[key]
Del(d, key) == [k \in DOMAIN d \ {key} |-> d[k]]

\* Lines 642-649: the record of a new session.
NewSession(created_at) ==
    [name          |-> None,
     message_count |-> 0,
     last_intent   |-> None,
     last_order    |-> None,
     messages      |-> <<>>,
     created_at    |-> created_at]

\* One entry of a session's messages list.
LogEntry(role, message, timestamp) ==
    [role |-> role, message |-> message, timestamp |-> timestamp]

EscalationText ==
    <<"I"," ","n","o","t","i","c","e"," ","y","o","u"," ","s","e","e","m"," ",
      "f","r","u","s","t","r","a","t","e","d","."," ","W","o","u","l","d"," ",
      "y","o","u"," ","l","i","k","e"," ","m","e"," ","t","o"," ","c","o","n",
      "n","e","c","t"," ","y","o","u"," ","w","i","t","h"," ","a"," ","h","u",
      "m","a","n"," ","a","g","e","n","t","?"," ","U+1F91D">>

EscalationReplies == <<"Yes please", "No thanks", "Continue chat">>

\* message_count > 3
EscalationCount == 3

\* A faulty Received: the message is logged but not counted.
ReceivedUncounted(store, session_id, user_message, clock) ==
    LET found == IF session_id \in DOMAIN store THEN store[session_id]
                 ELSE NewSession(clock)
    IN  [found EXCEPT !.messages = Append(@, LogEntry("user", user_message, clock))]

\* A faulty get_or_create: the record is initialised without the membership
\* test, so an existing session starts over.
get_or_create_resets(store, session_id, clock) ==
    Put(store, session_id, NewSession(clock))

\* Lines 641-649: the store after "if session_id not in conversations:
\* conversations[session_id] = {...}".
get_or_create(store, session_id, clock) ==
    IF session_id \notin DOMAIN store
    THEN Put(store, session_id, NewSession(clock))
    ELSE store

\* Lines 641-659: get or create the session, count the turn, log the message.
Received(store, session_id, user_message, clock) ==
    LET found == get_or_create(store, session_id, clock)[session_id]
    IN  [found EXCEPT !.message_count = @ + 1,
                      !.messages = Append(@, LogEntry("user", user_message, clock))]

\* A faulty Escalates: the third turn already escalates.
EscalatesFromThird(sentiment, session_data) ==
    sentiment = "negative" /\ session_data.message_count >= EscalationCount

\* Line 665
Escalates(sentiment, session_data) ==
    sentiment = "negative" /\ session_data.message_count > EscalationCount

\* A faulty Answered: the response is logged before the user's message.
AnsweredOutOfOrder(session_data, user_message, rnd, clock) ==
    LET intent == Classified[responses][user_message]
        out    == get_personalized_response(
                      intent, [session_data EXCEPT !.last_intent = Some(intent)],
                      user_message, rnd)
        log    == out.session_data.messages
    IN  [response     |-> out.response,
         intent       |-> intent,
         session_data |-> [out.session_data EXCEPT
                              !.messages = SubSeq(log, 1, Len(log) - 1)
                                           \o <<LogEntry("bot", out.response, clock)>>
                                           \o <<log[Len(log)]>>]]

\* A faulty Answered: the log keeps the last exchange only.
AnsweredKeepsLastExchange(session_data, user_message, rnd, clock) ==
    LET intent == Classified[responses][user_message]
        out    == get_personalized_response(
                      intent, [session_data EXCEPT !.last_intent = Some(intent)],
                      user_message, rnd)
        log    == out.session_data.messages
    IN  [response     |-> out.response,
         intent       |-> intent,
         session_data |-> [out.session_data EXCEPT
                              !.messages = <<log[Len(log)],
                                             LogEntry("bot", out.response, clock)>>]]

\* Lines 675-689: classify, respond, log the response.
Answered(session_data, user_message, rnd, clock) ==
    LET intent == Classified[responses][user_message]
        out    == get_personalized_response(
                      intent, [session_data EXCEPT !.last_intent = Some(intent)],
                      user_message, rnd)
    IN  [response     |-> out.response,
         intent       |-> intent,
         session_data |-> [out.session_data EXCEPT
                              !.messages = Append(@, LogEntry("bot", out.response, clock))]]

\* JSON values of a request body that are not strings: null (Python's None)
\* and a number.  Neither is a tuple of characters.
JsonNull == <<"null">>

JsonNumber == <<"number">>

IsStr(value) == value \notin {JsonNull, JsonNumber}

\* Line 49: TextBlob(message) raises TypeError for a message that is not a
\* string, inside the try block of analyze_sentiment.
Scored(user_message, polarity) == IF IsStr(user_message) THEN polarity ELSE None

\* Line 100: message.lower() raises AttributeError for a message that is
\* not a string; the request ends with Flask's 500 response.
ServerError == [error |-> "AttributeError", status |-> 500]

\* POST /chat with JSON body data; polarity and rnd are what TextBlob and
\* the random module yield during the call.
chat(data, polarity, rnd) ==
    LET user_message == Get(data, "message", <<>>)
        session_id   == Get(data, "session_id", "default")
        session_data == Received(conversations, session_id, user_message, now)
        sentiment    == analyze_sentiment(Scored(user_message, polarity))
        out          == Answered(session_data, user_message, rnd, now)
        served       == IF session_id \in DOMAIN conversations
                        THEN turns[session_id] ELSE <<>>
    IN  /\ request' = [op |-> "chat", data |-> data, draw |-> rnd.draw]
        /\ now' = now + 1
        /\ UNCHANGED responses
        /\ IF Escalates(sentiment, session_data)
           THEN /\ conversations' = Put(conversations, session_id, session_data)
                /\ reply' = [response      |-> EscalationText,
                             sentiment     |-> sentiment,
                             quick_replies |-> EscalationReplies,
                             session_id    |-> session_id]
           ELSE IF ~IsStr(user_message)
           THEN /\ conversations' = Put(conversations, session_id, session_data)
                /\ reply' = ServerError
           ELSE /\ conversations' = Put(conversations, session_id, out.session_data)
                /\ reply' = [response      |-> out.response,
                             intent        |-> out.intent,
                             sentiment     |-> sentiment,
                             quick_replies |-> get_quick_replies(out.intent),
                             name          |-> out.session_data.name,
                             session_id    |-> session_id]
        /\ turns' = Put(turns, session_id,
                        Append(served, [message   |-> user_message,
                                        response  |-> IF "response" \in DOMAIN reply'
                                                      THEN reply'.response ELSE None,
                                        escalated |-> Escalates(sentiment, session_data)]))

\* A faulty get_history: the lookup creates the record of an id that is not
\* stored (a get-or-create in place of the membership test).
get_history_creates(session_id) ==
    LET store == IF session_id \in DOMAIN conversations
                 THEN conversations
                 ELSE Put(conversations, session_id, NewSession(now))
    IN  /\ request' = [op |-> "history", session_id |-> session_id]
        /\ reply' = [history      |-> store[session_id].messages,
                     session_data |->
                         [name          |-> store[session_id].name,
                          message_count |-> store[session_id].message_count,
                          created_at    |-> store[session_id].created_at]]
        /\ conversations' = store
        /\ UNCHANGED <<responses, now, turns>>

\* GET /history/<session_id>
get_history(session_id) ==
    /\ request' = [op |-> "history", session_id |-> session_id]
    /\ reply' =
           IF session_id \in DOMAIN conversations
           THEN [history      |-> conversations[session_id].messages,
                 session_data |->
                     [name          |-> conversations[session_id].name,
                      message_count |-> conversations[session_id].message_count,
                      created_at    |-> conversations[session_id].created_at]]
           ELSE [history |-> <<>>, session_data |-> EmptyDict]
    /\ UNCHANGED <<responses, conversations, now, turns>>

\* A faulty clear_session: the session's log is emptied, its record kept.
clear_session_keeps_record(session_id) ==
    /\ request' = [op |-> "clear", session_id |-> session_id]
    /\ conversations' = IF session_id \in DOMAIN conversations
                        THEN [conversations EXCEPT ![session_id].messages = <<>>]
                        ELSE conversations
    /\ reply' = [status |-> "cleared"]
    /\ turns' = turns
    /\ UNCHANGED <<responses, now>>

\* A faulty clear_session: del without the membership test, so that an id
\* that is not stored raises KeyError and the request fails.
clear_session_unguarded(session_id) ==
    /\ request' = [op |-> "clear", session_id |-> session_id]
    /\ conversations' = IF session_id \in DOMAIN conversations
                        THEN Del(conversations, session_id)
                        ELSE conversations
    /\ reply' = IF session_id \in DOMAIN conversations
                THEN [status |-> "cleared"]
                ELSE [error |-> "KeyError"]
    /\ turns' = IF session_id \in DOMAIN turns THEN Del(turns, session_id) ELSE turns
    /\ UNCHANGED <<responses, now>>

\* GET /clear/<session_id>
clear_session(session_id) ==
    /\ request' = [op |-> "clear", session_id |-> session_id]
    /\ conversations' = IF session_id \in DOMAIN conversations
                        THEN Del(conversations, session_id)
                        ELSE conversations
    /\ reply' = [status |-> "cleared"]
    /\ turns' = IF session_id \in DOMAIN turns THEN Del(turns, session_id) ELSE turns
    /\ UNCHANGED <<responses, now>>

-----------------------------------------------------------------------------
(* Requests served one at a time: each handler call runs from its first     *)
(* line to its return with no other call in between, so no worker thread    *)
(* holds a frame and the store needs no dict identities.                    *)

NoThreads ==
    /\ heap = <<>>
    /\ index = EmptyDict
    /\ threads = EmptyDict

OneAtATime == UNCHANGED <<heap, index, threads>>

-----------------------------------------------------------------------------
(* The session engine: requests for two session ids, served one at a time,  *)
(* with the built-in catalog.                                               *)

\* The number of /chat requests served in one run.
MaxClock == 4

SessionIds == {"s1", "s2"}

Bodies == {[message |-> m, session_id |-> s] : m \in EngineMessages, s \in SessionIds}

\* TextBlob's polarity, on either side of each threshold.
Polarities == {Some(-31), Some(-30), Some(31)}

\* What the random module yields: random.random() on either side of 0.5.
RandomSource == {[choice |-> 0, draw |-> d] : d \in {5, 6}}

Init ==
    /\ responses = FallbackResponses
    /\ conversations = EmptyDict
    /\ now = 0
    /\ request = [op |-> "none"]
    /\ reply = EmptyDict
    /\ turns = EmptyDict
    /\ NoThreads

Next ==
    \/ \E data \in Bodies, polarity \in Polarities, rnd \in RandomSource :
           now < MaxClock /\ chat(data, polarity, rnd) /\ OneAtATime
    \/ \E session_id \in SessionIds : get_history(session_id) /\ OneAtATime
    \/ \E session_id \in SessionIds : clear_session(session_id) /\ OneAtATime

Spec == Init /\ [][Next]_vars

-----------------------------------------------------------------------------
(* The classifier and the response generator on every message of the model, *)
(* under either catalog: a few turns on one session.                        *)

\* The number of /chat requests served in one run.
MaxClassifyClock == 2

ClassifyBodies == {[message |-> m, session_id |-> "s1"] : m \in ClassifyMessages}

\* TextBlob raises, or scores the message as positive.
ClassifyPolarities == {None, Some(31)}

ClassifyRandomSource == {[choice |-> c, draw |-> d] : c \in {0, 1}, d \in {5, 6}}

InitClassify ==
    /\ responses \in ClassifyCatalogs
    /\ conversations = EmptyDict
    /\ now = 0
    /\ request = [op |-> "none"]
    /\ reply = EmptyDict
    /\ turns = EmptyDict
    /\ NoThreads

NextClassify ==
    \/ \E data \in ClassifyBodies, polarity \in ClassifyPolarities,
          rnd \in ClassifyRandomSource :
           now < MaxClassifyClock /\ chat(data, polarity, rnd) /\ OneAtATime
    \/ get_history("s1") /\ OneAtATime
    \/ clear_session("s1") /\ OneAtATime

SpecClassify == InitClassify /\ [][NextClassify]_vars

-----------------------------------------------------------------------------
(* The classifier under every catalog of the model, on every message: one   *)
(* session, with TextBlob scoring each message as positive.                 *)

\* The number of /chat requests served in one run.
MaxResolveClock == 1

ResolveBodies == {[message |-> m, session_id |-> "s1"] : m \in Messages}

InitResolve ==
    /\ responses \in Catalogs
    /\ conversations = EmptyDict
    /\ now = 0
    /\ request = [op |-> "none"]
    /\ reply = EmptyDict
    /\ turns = EmptyDict
    /\ NoThreads

NextResolve ==
    \/ \E data \in ResolveBodies, rnd \in ClassifyRandomSource :
           now < MaxResolveClock /\ chat(data, Some(31), rnd) /\ OneAtATime
    \/ get_history("s1") /\ OneAtATime
    \/ clear_session("s1") /\ OneAtATime

SpecResolve == InitResolve /\ [][NextResolve]_vars

-----------------------------------------------------------------------------
(* Request bodies that miss a field or carry a message that is not a        *)
(* string, served one at a time with the built-in catalog.                  *)

\* The number of /chat requests served in one run.
MaxRequestClock == 2

RequestIds == {"s1", "default"}

RequestBodies ==
    {[message |-> M_hi, session_id |-> "s1"],
     [session_id |-> "s1"],
     [message |-> M_hi],
     EmptyDict,
     [message |-> JsonNull, session_id |-> "s1"],
     [message |-> JsonNumber]}

RequestPolarities == {Some(-31), Some(31)}

NextRequests ==
    \/ \E data \in RequestBodies, polarity \in RequestPolarities, rnd \in RandomSource :
           now < MaxRequestClock /\ chat(data, polarity, rnd) /\ OneAtATime
    \/ \E session_id \in RequestIds : get_history(session_id) /\ OneAtATime
    \/ \E session_id \in RequestIds : clear_session(session_id) /\ OneAtATime

SpecRequests == Init /\ [][NextRequests]_vars

-----------------------------------------------------------------------------
(* Overlapping requests: chat() runs in worker threads, one statement group *)
(* at a time.  The store maps a session id to a dict of the heap, and a     *)
(* frame's session_data is a reference into the heap, as in Python; the     *)
(* variable conversations is the store with every reference followed.       *)

\* The number of requests that arrive in one run; the clock ticks at each.
MaxConcurrentClock == 2

\* The worker threads of the server, in the order the pool hands them out.
Threads == {1, 2}

ConcurrentBodies ==
    {[message |-> M_i_am_al, session_id |-> "s1"],
     [message |-> M_hi, session_id |-> "s1"],
     [message |-> M_hi, session_id |-> "s2"]}

\* The frame of a worker that serves no request.
IdleFrame ==
    [pc       |-> "idle",
     data     |-> EmptyDict,
     polarity |-> None,
     rnd      |-> [choice |-> 0, draw |-> 0],
     clock    |-> 0,
     ref      |-> 0,
     count    |-> 0,
     intent   |-> "",
     response |-> <<>>,
     alone    |-> TRUE,
     before   |-> None]

\* The store with the references followed.
Deref(objects, refs) == [id \in DOMAIN refs |-> objects[refs[id]]]

\* The session id and the message of the request a worker serves.
SessionOf(t) == Get(threads[t].data, "session_id", "default")

MessageOf(t) == Get(threads[t].data, "message", <<>>)

\* The workers that serve a /chat request for the session id.
InFlight(session_id) ==
    {t \in Threads : threads[t].pc # "idle" /\ SessionOf(t) = session_id}

\* The frames after worker t moved to the frame next; the workers in overlap
\* have met another request for their session id.
Frames(t, next, overlap) ==
    [u \in Threads |->
        IF u = t THEN next
        ELSE IF u \in overlap THEN [threads[u] EXCEPT !.alone = FALSE]
        ELSE threads[u]]

\* Lines 635-637: a worker takes a /chat request.  before is the session's
\* record at that moment, kept for comparison with the serial handler.
chat_begin(t, data, polarity, rnd) ==
    LET session_id == Get(data, "session_id", "default")
        overlap    == InFlight(session_id)
    IN  /\ threads[t].pc = "idle"
        /\ \A u \in Threads : threads[u].pc = "idle" => t <= u
        /\ threads' = Frames(t, [IdleFrame EXCEPT
                                    !.pc = "check", !.data = data,
                                    !.polarity = polarity, !.rnd = rnd,
                                    !.clock = now, !.alone = (overlap = {}),
                                    !.before = IF session_id \in DOMAIN conversations
                                               THEN Some(conversations[session_id])
                                               ELSE None],
                            overlap)
        /\ now' = now + 1
        /\ UNCHANGED <<responses, conversations, request, reply, turns, heap, index>>

\* Line 641: if session_id not in conversations
chat_check(t) ==
    /\ threads[t].pc = "check"
    /\ threads' = Frames(t, [threads[t] EXCEPT
                                !.pc = IF SessionOf(t) \in DOMAIN index
                                       THEN "lookup" ELSE "create"], {})
    /\ UNCHANGED <<responses, conversations, now, request, reply, turns, heap, index>>

\* Lines 642-649: conversations[session_id] = {...}
chat_create(t) ==
    /\ threads[t].pc = "create"
    /\ heap' = Append(heap, NewSession(threads[t].clock))
    /\ index' = Put(index, SessionOf(t), Len(heap) + 1)
    /\ conversations' = Deref(heap', index')
    /\ threads' = Frames(t, [threads[t] EXCEPT !.pc = "lookup"], {})
    /\ UNCHANGED <<responses, now, request, reply, turns>>

\* Line 651: session_data = conversations[session_id]; KeyError when the id
\* was cleared since line 641.
chat_lookup(t) ==
    /\ threads[t].pc = "lookup"
    /\ IF SessionOf(t) \in DOMAIN index
       THEN /\ threads' = Frames(t, [threads[t] EXCEPT
                                        !.pc = "load", !.ref = index[SessionOf(t)]], {})
            /\ UNCHANGED <<request, reply>>
       ELSE /\ threads' = Frames(t, IdleFrame, {})
            /\ request' = [op |-> "chat", data |-> threads[t].data,
                        draw |-> threads[t].rnd.draw]
            /\ reply' = [error |-> "KeyError", status |-> 500]
    /\ UNCHANGED <<responses, conversations, now, turns, heap, index>>

\* A faulty chat_store_count: the turn is counted twice.
chat_store_count_twice(t) ==
    /\ threads[t].pc = "store"
    /\ heap' = [heap EXCEPT ![threads[t].ref].message_count = @ + 2]
    /\ conversations' = Deref(heap', index)
    /\ threads' = Frames(t, [threads[t] EXCEPT !.pc = "log_user"], {})
    /\ UNCHANGED <<responses, now, request, reply, turns, index>>

\* Line 652, first half: the read of session_data['message_count'].
chat_load_count(t) ==
    /\ threads[t].pc = "load"
    /\ threads' = Frames(t, [threads[t] EXCEPT
                                !.pc = "store",
                                !.count = heap[threads[t].ref].message_count], {})
    /\ UNCHANGED <<responses, conversations, now, request, reply, turns, heap, index>>

\* Line 652, second half: the write of the value read plus 1.
chat_store_count(t) ==
    /\ threads[t].pc = "store"
    /\ heap' = [heap EXCEPT ![threads[t].ref].message_count = threads[t].count + 1]
    /\ conversations' = Deref(heap', index)
    /\ threads' = Frames(t, [threads[t] EXCEPT !.pc = "log_user"], {})
    /\ UNCHANGED <<responses, now, request, reply, turns, index>>

\* Lines 655-659: session_data['messages'].append({...})
chat_log_user(t) ==
    /\ threads[t].pc = "log_user"
    /\ heap' = [heap EXCEPT ![threads[t].ref].messages =
                   Append(@, LogEntry("user", MessageOf(t), threads[t].clock))]
    /\ conversations' = Deref(heap', index)
    /\ threads' = Frames(t, [threads[t] EXCEPT !.pc = "decide"], {})
    /\ UNCHANGED <<responses, now, request, reply, turns, index>>

\* The turns served on a session id, with one more.
Served(session_id, user_message, response, escalated) ==
    Put(turns, session_id,
        Append(IF session_id \in DOMAIN turns THEN turns[session_id] ELSE <<>>,
               [message   |-> user_message,
                response  |-> response,
                escalated |-> escalated]))

\* Lines 662-677: the sentiment, the escalation return, or else the intent
\* and session_data['last_intent'] = intent.
chat_decide(t) ==
    LET sentiment == analyze_sentiment(Scored(MessageOf(t), threads[t].polarity))
        intent    == Classified[responses][MessageOf(t)]
    IN  /\ threads[t].pc = "decide"
        /\ IF Escalates(sentiment, heap[threads[t].ref])
           THEN /\ request' = [op |-> "chat", data |-> threads[t].data,
                        draw |-> threads[t].rnd.draw]
                /\ reply' = [response      |-> EscalationText,
                             sentiment     |-> sentiment,
                             quick_replies |-> EscalationReplies,
                             session_id    |-> SessionOf(t)]
                /\ turns' = Served(SessionOf(t), MessageOf(t), EscalationText, TRUE)
                /\ threads' = Frames(t, IdleFrame, {})
                /\ UNCHANGED <<conversations, heap>>
           ELSE /\ heap' = [heap EXCEPT ![threads[t].ref].last_intent = Some(intent)]
                /\ conversations' = Deref(heap', index)
                /\ threads' = Frames(t, [threads[t] EXCEPT
                                            !.pc = "respond", !.intent = intent], {})
                /\ UNCHANGED <<request, reply, turns>>
        /\ UNCHANGED <<responses, now, index>>

\* Line 682: response = get_personalized_response(intent, session_data,
\* user_message), which assigns the name or the order number on the dict.
chat_respond(t) ==
    LET out == get_personalized_response(threads[t].intent, heap[threads[t].ref],
                                         MessageOf(t), threads[t].rnd)
    IN  /\ threads[t].pc = "respond"
        /\ heap' = [heap EXCEPT ![threads[t].ref] = out.session_data]
        /\ conversations' = Deref(heap', index)
        /\ threads' = Frames(t, [threads[t] EXCEPT
                                    !.pc = "log_bot", !.response = out.response], {})
        /\ UNCHANGED <<responses, now, request, reply, turns, index>>

\* A faulty chat_log_bot: the entry is appended through the store,
\* conversations[session_id]['messages'].append({...}), which raises
\* KeyError when the id was cleared.
chat_log_bot_by_id(t) ==
    /\ threads[t].pc = "log_bot"
    /\ IF SessionOf(t) \in DOMAIN index
       THEN /\ heap' = [heap EXCEPT ![index[SessionOf(t)]].messages =
                           Append(@, LogEntry("bot", threads[t].response,
                                              threads[t].clock))]
            /\ conversations' = Deref(heap', index)
            /\ threads' = Frames(t, [threads[t] EXCEPT !.pc = "return"], {})
            /\ UNCHANGED <<request, reply>>
       ELSE /\ threads' = Frames(t, IdleFrame, {})
            /\ request' = [op |-> "chat", data |-> threads[t].data,
                           draw |-> threads[t].rnd.draw]
            /\ reply' = [error |-> "KeyError", status |-> 500]
            /\ UNCHANGED <<conversations, heap>>
    /\ UNCHANGED <<responses, now, turns, index>>

\* Lines 685-689: session_data['messages'].append({...})
chat_log_bot(t) ==
    /\ threads[t].pc = "log_bot"
    /\ heap' = [heap EXCEPT ![threads[t].ref].messages =
                   Append(@, LogEntry("bot", threads[t].response, threads[t].clock))]
    /\ conversations' = Deref(heap', index)
    /\ threads' = Frames(t, [threads[t] EXCEPT !.pc = "return"], {})
    /\ UNCHANGED <<responses, now, request, reply, turns, index>>

\* Lines 694-701: the JSON body of the turn.
chat_return(t) ==
    /\ threads[t].pc = "return"
    /\ request' = [op |-> "chat", data |-> threads[t].data,
                        draw |-> threads[t].rnd.draw]
    /\ reply' = [response      |-> threads[t].response,
                 intent        |-> threads[t].intent,
                 sentiment     |-> analyze_sentiment(
                                       Scored(MessageOf(t), threads[t].polarity)),
                 quick_replies |-> get_quick_replies(threads[t].intent),
                 name          |-> heap[threads[t].ref].name,
                 session_id    |-> SessionOf(t)]
    /\ turns' = Served(SessionOf(t), MessageOf(t), threads[t].response, FALSE)
    /\ threads' = Frames(t, IdleFrame, {})
    /\ UNCHANGED <<responses, conversations, now, heap, index>>

\* GET /history/<session_id> while turns are in flight: the handler reads the
\* dict the id refers to at that moment.
serve_history(session_id) ==
    /\ request' = [op |-> "history", session_id |-> session_id]
    /\ reply' =
           IF session_id \in DOMAIN index
           THEN [history      |-> heap[index[session_id]].messages,
                 session_data |->
                     [name          |-> heap[index[session_id]].name,
                      message_count |-> heap[index[session_id]].message_count,
                      created_at    |-> heap[index[session_id]].created_at]]
           ELSE [history |-> <<>>, session_data |-> EmptyDict]
    /\ now' = now + 1
    /\ UNCHANGED <<responses, conversations, turns, heap, index, threads>>

\* A faulty serve_clear: the whole store is emptied (conversations.clear()).
serve_clear_all(session_id) ==
    /\ request' = [op |-> "clear", session_id |-> session_id]
    /\ reply' = [status |-> "cleared"]
    /\ conversations' = EmptyDict
    /\ turns' = EmptyDict
    /\ index' = EmptyDict
    /\ threads' = [u \in Threads |->
                      IF threads[u].pc # "idle"
                      THEN [threads[u] EXCEPT !.alone = FALSE] ELSE threads[u]]
    /\ now' = now + 1
    /\ UNCHANGED <<responses, heap>>

\* GET /clear/<session_id> while turns are in flight: the id leaves the
\* store, the dict stays with the frames that refer to it.
serve_clear(session_id) ==
    /\ request' = [op |-> "clear", session_id |-> session_id]
    /\ reply' = [status |-> "cleared"]
    /\ index' = IF session_id \in DOMAIN index THEN Del(index, session_id) ELSE index
    /\ conversations' = Deref(heap, index')
    /\ turns' = IF session_id \in DOMAIN turns THEN Del(turns, session_id) ELSE turns
    /\ threads' = [u \in Threads |->
                      IF u \in InFlight(session_id)
                      THEN [threads[u] EXCEPT !.alone = FALSE] ELSE threads[u]]
    /\ now' = now + 1
    /\ UNCHANGED <<responses, heap>>

ConcurrentPolarities == {Some(31)}

ConcurrentRandomSource == {[choice |-> 0, draw |-> 6]}

InitConcurrent ==
    /\ responses = FallbackResponses
    /\ conversations = EmptyDict
    /\ now = 0
    /\ request = [op |-> "none"]
    /\ reply = EmptyDict
    /\ turns = EmptyDict
    /\ heap = <<>>
    /\ index = EmptyDict
    /\ threads = [t \in Threads |-> IdleFrame]

NextConcurrent ==
    \/ \E t \in Threads, data \in ConcurrentBodies,
          polarity \in ConcurrentPolarities, rnd \in ConcurrentRandomSource :
           now < MaxConcurrentClock /\ chat_begin(t, data, polarity, rnd)
    \/ \E t \in Threads : chat_check(t)
    \/ \E t \in Threads : chat_create(t)
    \/ \E t \in Threads : chat_lookup(t)
    \/ \E t \in Threads : chat_load_count(t)
    \/ \E t \in Threads : chat_store_count(t)
    \/ \E t \in Threads : chat_log_user(t)
    \/ \E t \in Threads : chat_decide(t)
    \/ \E t \in Threads : chat_respond(t)
    \/ \E t \in Threads : chat_log_bot(t)
    \/ \E t \in Threads : chat_return(t)
    \/ \E session_id \in SessionIds :
           now < MaxConcurrentClock /\ serve_history(session_id)
    \/ \E session_id \in SessionIds :
           now < MaxConcurrentClock /\ serve_clear(session_id)

SpecConcurrent == InitConcurrent /\ [][NextConcurrent]_vars

-----------------------------------------------------------------------------
(* A clear in the middle of a turn: requests for one session id, as many    *)
(* as it takes for a turn, a clear during it, and a history read or the     *)
(* next turn.                                                               *)

\* The number of requests that arrive in one run.
MaxDetachedClock == 3

DetachedBody == [message |-> M_hi, session_id |-> "s1"]

NextDetached ==
    \/ \E t \in Threads, polarity \in ConcurrentPolarities,
          rnd \in ConcurrentRandomSource :
           now < MaxDetachedClock /\ chat_begin(t, DetachedBody, polarity, rnd)
    \/ \E t \in Threads : chat_check(t)
    \/ \E t \in Threads : chat_create(t)
    \/ \E t \in Threads : chat_lookup(t)
    \/ \E t \in Threads : chat_load_count(t)
    \/ \E t \in Threads : chat_store_count(t)
    \/ \E t \in Threads : chat_log_user(t)
    \/ \E t \in Threads : chat_decide(t)
    \/ \E t \in Threads : chat_respond(t)
    \/ \E t \in Threads : chat_log_bot(t)
    \/ \E t \in Threads : chat_return(t)
    \/ now < MaxDetachedClock /\ serve_history("s1")
    \/ now < MaxDetachedClock /\ serve_clear("s1")

SpecDetached == InitConcurrent /\ [][NextDetached]_vars

-----------------------------------------------------------------------------
(* Properties of the session engine.                                        *)

\* The step is a /chat request: only chat reads the clock.
ChatStep == now' # now

\* The session id and the message of the last /chat request.
ChatId == Get(request.data, "session_id", "default")

ChatMessage == Get(request.data, "message", <<>>)

\* The last request was a /chat and it took the escalation branch.
Escalated == request.op = "chat" /\ reply.response = EscalationText

\* The number of user entries of a log.
UserEntries(log) == Cardinality({i \in DOMAIN log : log[i].role = "user"})

\* C1: in every reachable state, every stored session's message_count is the
\* number of user-role entries of its messages log.
C1_CountIsUserEntries ==
    \A id \in DOMAIN conversations :
        conversations[id].message_count = UserEntries(conversations[id].messages)

\* A session that took four turns, the last one escalated, beside another
\* stored session: its log has four user entries among seven.
C1_Witness ==
    \E id \in DOMAIN conversations :
        /\ conversations[id].message_count = 4
        /\ Len(conversations[id].messages) = 7

\* C2: a turn escalates exactly when its sentiment is negative and the
\* incremented message counter exceeds 3; the escalating turn returns the fixed
\* text and quick replies and leaves last_intent, name and last_order alone.
C2_EscalationRule ==
    [][ChatStep =>
          LET id  == ChatId'
              new == conversations'[id]
          IN  /\ (reply'.response = EscalationText)
                    <=> (reply'.sentiment = "negative" /\ new.message_count > 3)
              /\ reply'.response = EscalationText =>
                    /\ reply'.quick_replies = <<"Yes please", "No thanks", "Continue chat">>
                    /\ id \in DOMAIN conversations
                    /\ new.last_intent = conversations[id].last_intent
                    /\ new.name = conversations[id].name
                    /\ new.last_order = conversations[id].last_order
              /\ new.message_count <= 3 => "intent" \in DOMAIN reply']_vars

\* An escalated fourth turn whose message introduces a name, on a session
\* that has none: the name stays unset.
C2_Witness ==
    /\ Escalated
    /\ ChatMessage = M_i_am_al
    /\ conversations[ChatId].name = None
    /\ conversations[ChatId].message_count = 4

\* C3: after every completed turn, escalated or not, the last log entry of the
\* session is a bot entry carrying the returned response, right after the user
\* entry of that turn.
C3_BotEntryAfterEveryTurn ==
    request.op = "chat" =>
        LET log == conversations[ChatId].messages
            n   == Len(log)
        IN  /\ n >= 2
            /\ log[n].role = "bot"
            /\ log[n].message = reply.response
            /\ log[n - 1].role = "user"
            /\ log[n - 1].message = ChatMessage

\* C4: a stored session whose N turns so far did not escalate has
\* message_count N and a log of 2N entries: the k-th user entry with the k-th
\* inbound message, then the bot entry with the response returned for it.
C4_AlternatingLog ==
    \A id \in DOMAIN conversations :
        LET served == turns[id]
            log    == conversations[id].messages
        IN  (\A k \in DOMAIN served : ~served[k].escalated) =>
                /\ conversations[id].message_count = Len(served)
                /\ Len(log) = 2 * Len(served)
                /\ \A k \in DOMAIN served :
                       /\ log[2 * k - 1].role = "user"
                       /\ log[2 * k - 1].message = served[k].message
                       /\ log[2 * k].role = "bot"
                       /\ log[2 * k].message = served[k].response

\* Four turns on one session, none escalated.
C4_Witness ==
    \E id \in DOMAIN conversations :
        /\ Len(turns[id]) = 4
        /\ \A k \in DOMAIN turns[id] : ~turns[id][k].escalated
        /\ turns[id][1].message # turns[id][2].message

\* C5: right after clear(id), a history read of id returns an empty log and
\* empty metadata, and a turn on id runs on a fresh session: counter 1, a log
\* of that turn only, the name that turn extracted (if any), no escalation.
C5_ClearThenFresh ==
    [][request.op = "clear" =>
          LET id == request.session_id
          IN  /\ (request'.op = "history" /\ request'.session_id = id) =>
                    reply' = [history |-> <<>>, session_data |-> EmptyDict]
              /\ (ChatStep /\ ChatId' = id) =>
                    /\ conversations'[id].message_count = 1
                    /\ conversations'[id].created_at = now
                    /\ conversations'[id].name = Names[ChatMessage']
                    /\ Len(conversations'[id].messages) = 2
                    /\ conversations'[id].messages[1].message = ChatMessage'
                    /\ reply'.response # EscalationText]_vars

\* A negative first turn on a session created after three earlier turns: the
\* threshold is counted from zero again.
C5_Witness ==
    /\ request.op = "chat"
    /\ reply.sentiment = "negative"
    /\ "intent" \in DOMAIN reply
    /\ now = 4
    /\ DOMAIN conversations = {ChatId}
    /\ conversations[ChatId].message_count = 1
    /\ conversations[ChatId].created_at = 3

\* C6: clear(id) answers 'cleared' whether or not id is stored, leaves the
\* store unchanged when it is not, and a second clear(id) changes nothing.
C6_ClearAbsentIsNoOp ==
    [][request'.op = "clear" =>
          LET id == request'.session_id
          IN  /\ reply' = [status |-> "cleared"]
              /\ id \notin DOMAIN conversations'
              /\ id \notin DOMAIN conversations => conversations' = conversations
              /\ \A other \in DOMAIN conversations \ {id} :
                     /\ other \in DOMAIN conversations'
                     /\ conversations'[other] = conversations[other]
              /\ request = request' =>
                     conversations' = conversations /\ reply' = reply]_vars

\* clear of an id that was never stored, beside a stored session.
C6_Witness ==
    /\ request.op = "clear"
    /\ now = 1
    /\ DOMAIN conversations # {}
    /\ request.session_id \notin DOMAIN conversations
    /\ \A id \in DOMAIN conversations : conversations[id].created_at = 0

-----------------------------------------------------------------------------
(* Properties of the classifier and the response generator.                 *)

\* The last request was a /chat that was classified and answered.
AnsweredChat == request.op = "chat" /\ "intent" \in DOMAIN reply

\* C7: every message, the empty one included, gets exactly one intent name,
\* which depends on the message and the catalog only, whatever the session's
\* state, and is 'default' when no rule fires on the message.
C7_ClassifierTotal ==
    AnsweredChat =>
        /\ reply.intent \in IntentNames(responses)
        /\ reply.intent = Classified[responses][ChatMessage]
        /\ conversations[ChatId].last_intent = Some(reply.intent)
        /\ ChatMessage \in Unmatched[responses] => reply.intent = "default"

\* The empty message, classified 'default' on a session that has a name.
C7_Witness ==
    /\ AnsweredChat
    /\ ChatMessage = M_empty
    /\ reply.intent = "default"
    /\ conversations[ChatId].name # None

\* C8: a message from which extract_name gets a name X is classified
\* name_intro whatever else it holds; X becomes the session's name, replacing
\* any earlier one, and the response is the fixed greeting around X.
C8_NameIntroFirst ==
    AnsweredChat /\ Truthy(Names[ChatMessage]) =>
        LET X == Names[ChatMessage][1]
        IN  /\ reply.intent = "name_intro"
            /\ conversations[ChatId].name = Some(X)
            /\ reply.name = Some(X)
            /\ reply.response = NameGreetHead \o X \o NameGreetTail
            /\ ChatMessage = M_my_name_is_Sam => X = <<"S", "a", "m">>

\* "this is order #12345" on a session whose first turn was "my name is
\* Sam": the name Sam is replaced.
C8_Witness ==
    /\ AnsweredChat
    /\ ChatMessage = M_this_is_order
    /\ Len(turns[ChatId]) = 2
    /\ turns[ChatId][1].message = M_my_name_is_Sam
    /\ conversations[ChatId].name = Some(<<"O", "r", "d", "e", "r">>)

\* C9 as stated: every message holding an order reference is classified
\* order_tracking and its digits become the session's last_order.
C9_OrderReferenceAlwaysTracked ==
    AnsweredChat /\ Truthy(OrderNumbers[ChatMessage]) =>
        /\ reply.intent = "order_tracking"
        /\ conversations[ChatId].last_order = OrderNumbers[ChatMessage]

\* C9, amended: a message holding an order reference from which extract_name
\* gets no name is classified order_tracking and its digits become the
\* session's last_order; if extract_name gets a name, it is name_intro.
C9_OrderReferenceUnlessName ==
    AnsweredChat /\ Truthy(OrderNumbers[ChatMessage]) =>
        IF Truthy(Names[ChatMessage])
        THEN reply.intent = "name_intro"
        ELSE /\ reply.intent = "order_tracking"
             /\ conversations[ChatId].last_order = OrderNumbers[ChatMessage]
             /\ ChatMessage = M_track_order =>
                    conversations[ChatId].last_order = Some(<<"1", "2", "3", "4", "5", "6">>)
             /\ ChatMessage = M_ord_return =>
                    conversations[ChatId].last_order = Some(<<"7", "7", "7", "7", "7">>)

\* An order reference beside a catalog keyword, after another order.
C9_Witness ==
    /\ AnsweredChat
    /\ ChatMessage = M_ord_return
    /\ Len(turns[ChatId]) = 2
    /\ turns[ChatId][1].message = M_hash
    /\ reply.intent = "order_tracking"

\* C10: the reply of every completed turn carries response, intent,
\* sentiment, quick_replies, name and session_id.
C10_ReplyWellFormed ==
    request.op = "chat" =>
        {"response", "intent", "sentiment", "quick_replies", "name", "session_id"}
            \subseteq DOMAIN reply

-----------------------------------------------------------------------------
(* Properties of requests with missing or malformed fields.                 *)

\* The message a /chat body stands for when its field is missing or is not
\* a string.
MessageOr(data) ==
    IF "message" \in DOMAIN data /\ IsStr(data.message) THEN data.message ELSE <<>>

\* C11: a /chat request whose message is absent, null or not a string, or
\* whose session_id is absent, never fails: it is served as the message ''
\* on the session 'default', returns a normal result and leaves a session
\* record whose counter and log agree and whose last user entry holds ''.
C11_MalformedNeverFails ==
    request.op = "chat" =>
        LET id  == ChatId
            log == conversations[id].messages
            own == {i \in DOMAIN log : log[i].role = "user"}
        IN  /\ "response" \in DOMAIN reply
            /\ "error" \notin DOMAIN reply
            /\ reply.session_id = id
            /\ conversations[id].message_count = Cardinality(own)
            /\ \E i \in own :
                   /\ \A j \in own : j <= i
                   /\ log[i].message = MessageOr(request.data)

-----------------------------------------------------------------------------
(* Properties of the history read and of session creation.                  *)

\* C12: a history read changes nothing in the store; for a stored id it
\* returns the session's log in order with its name, message_count and
\* created_at, for an id that is not stored it returns an empty log and empty
\* metadata, without an error and without creating a session.
C12_HistoryReadOnly ==
    [][request'.op = "history" =>
          LET id == request'.session_id
          IN  /\ conversations' = conversations
              /\ "error" \notin DOMAIN reply'
              /\ IF id \in DOMAIN conversations
                 THEN /\ reply'.history = conversations[id].messages
                      /\ reply'.session_data =
                             [name          |-> conversations[id].name,
                              message_count |-> conversations[id].message_count,
                              created_at    |-> conversations[id].created_at]
                 ELSE /\ reply'.history = <<>>
                      /\ reply'.session_data = EmptyDict
                      /\ id \notin DOMAIN conversations'
    ]_vars

\* The history of an id that is not stored was read while the other session
\* held two turns: the reply is empty and the store still holds one session.
C12_Witness ==
    /\ request.op = "history"
    /\ request.session_id \notin DOMAIN conversations
    /\ reply.history = <<>>
    /\ \E id \in DOMAIN conversations : Len(conversations[id].messages) = 4

\* The log before is a prefix of the log after.
IsPrefix(before, after) ==
    Len(before) <= Len(after) /\ SubSeq(after, 1, Len(before)) = before

\* C13: a session is initialised only when its id is not stored.  Get-or-create
\* on a stored id leaves the store as it is, doing it twice (the second time
\* at a later clock reading) gives the same record as doing it once, and a
\* turn on a stored id keeps created_at and the log so far, counts on from the
\* stored message_count and unsets none of name, last_intent and last_order.
C13_GetOrCreateKeepsRecord ==
    /\ [](\A id \in SessionIds :
            LET once == get_or_create(conversations, id, now)
            IN  /\ get_or_create(once, id, now + 1) = once
                /\ id \in DOMAIN conversations => once = conversations)
    /\ [][(ChatStep /\ ChatId' \in DOMAIN conversations) =>
            LET old == conversations[ChatId']
                new == conversations'[ChatId']
            IN  /\ new.created_at = old.created_at
                /\ new.message_count = old.message_count + 1
                /\ IsPrefix(old.messages, new.messages)
                /\ old.name # None => new.name # None
                /\ old.last_intent # None => new.last_intent # None
                /\ old.last_order # None => new.last_order # None
       ]_vars

\* The second turn of a session: its message introduces no name, and the
\* record still has the name and the creation time of the first turn.
C13_Witness ==
    /\ request.op = "chat"
    /\ ChatMessage = M_hi
    /\ now >= 2
    /\ conversations[ChatId].message_count = 2
    /\ conversations[ChatId].created_at = 0
    /\ conversations[ChatId].name # None

-----------------------------------------------------------------------------
(* Properties of the quick replies and of the classifier's resolution.      *)

DefaultReplies == <<"Store hours", "Return policy", "Shipping info", "Contact us">>

\* C14: the quick replies of a turn that does not escalate are the table's
\* entry for the intent of that turn, and the 'default' list for an intent
\* the table does not have, name_intro and order_tracking among them; 'hello'
\* on a new session is a greeting with the four general replies.  The lookup
\* leaves the session with the six fields and the intent the turn resolved.
C14_QuickReplies ==
    AnsweredChat =>
        /\ reply.intent \in DOMAIN quick_replies_map
               => reply.quick_replies = quick_replies_map[reply.intent]
        /\ reply.intent \notin DOMAIN quick_replies_map
               => reply.quick_replies = DefaultReplies
        /\ reply.intent \in {"name_intro", "order_tracking", "default", "greeting"}
               => reply.quick_replies = DefaultReplies
        /\ reply.intent = "return"
               => reply.quick_replies = <<"Start a return", "Return policy",
                                          "Exchange item", "Refund status">>
        /\ (ChatMessage = M_hello /\ conversations[ChatId].message_count = 1)
               => reply.intent = "greeting"
        /\ conversations[ChatId].last_intent = Some(reply.intent)
        /\ DOMAIN conversations[ChatId] = DOMAIN NewSession(0)

\* A tracking request: its intent has no entry in the table and the reply
\* carries the 'default' list.
C14_Witness ==
    /\ AnsweredChat
    /\ ChatMessage = M_track_order
    /\ reply.intent = "order_tracking"
    /\ reply.quick_replies = DefaultReplies

\* The names match_intent returns without looking them up in the catalog.
BuiltInIntents == {"name_intro", "order_tracking", "greeting"}

\* C15 as stated: the intent of every answered turn is a key of the catalog.
C15_IntentIsCatalogKey ==
    AnsweredChat => InCatalog(responses, reply.intent)

\* C15: the intent of every answered turn is a key of the catalog or one of
\* the three names the classifier returns on its own: name_intro,
\* order_tracking and greeting.
C15_IntentIsKeyOrBuiltIn ==
    AnsweredChat =>
        \/ InCatalog(responses, reply.intent)
        \/ reply.intent \in BuiltInIntents

\* 'hello' under the catalog that has the 'default' entry only: the turn is a
\* greeting, which that catalog does not have.
C15_Witness ==
    /\ AnsweredChat
    /\ ChatMessage = M_hello
    /\ responses = BareResponses
    /\ reply.intent = "greeting"
    /\ ~InCatalog(responses, reply.intent)

\* C16: match_intent returns the result of the first step that fires, in the
\* order name, order number, priority intents in the order of
\* priority_intents, the other catalog intents in the catalog's order,
\* greeting word, 'default'; a priority intent with all the words of a pattern
\* in the message wins over another intent whose pattern is in the message,
\* wherever the catalog lists the two.
C16_FirstHitWins ==
    AnsweredChat =>
        LET f      == Fired[responses][ChatMessage]
            intent == reply.intent
        IN  /\ f.name => intent = "name_intro"
            /\ (~f.name /\ f.order) => intent = "order_tracking"
            /\ (~f.name /\ ~f.order /\ f.priority # {}) =>
                   \E i \in f.priority :
                       /\ intent = priority_intents[i]
                       /\ \A j \in f.priority : i <= j
            /\ (~f.name /\ ~f.order /\ f.priority = {} /\ f.others # {}) =>
                   \E i \in f.others :
                       /\ intent = responses[i].intent
                       /\ \A j \in f.others : i <= j
            /\ (~f.name /\ ~f.order /\ f.priority = {} /\ f.others = {}) =>
                   intent = IF f.greeting THEN "greeting" ELSE "default"

\* 'shipping hours' under the catalog that lists hours before shipping: both
\* patterns are in the message and the turn is a shipping turn.
C16_Witness ==
    /\ AnsweredChat
    /\ ChatMessage = M_shipping_hours
    /\ responses = LoadedResponses
    /\ Fired[responses][ChatMessage].others # {}
    /\ reply.intent = "shipping"

\* C17: match_intent returns a priority intent only when some pattern of it
\* has every word among the whitespace-separated words of the lower-cased
\* message; a pattern that is only part of a longer word gives no priority
\* intent.
C17_PriorityNeedsWords ==
    AnsweredChat =>
        LET f == Fired[responses][ChatMessage]
        IN  \A i \in DOMAIN priority_intents :
                reply.intent = priority_intents[i] => i \in f.priority

\* 'prepayment' under a catalog with the pattern 'payment': the pattern is
\* inside the message's only word and the turn falls through to 'default'.
C17_Witness ==
    /\ AnsweredChat
    /\ ChatMessage = M_prepayment
    /\ "payment" \in Fired[responses][ChatMessage].substring
    /\ Fired[responses][ChatMessage].priority = {}
    /\ reply.intent = "default"

-----------------------------------------------------------------------------
(* The life of a session between its creation and its clear.                *)

\* C20: a stored session is removed by a clear of its own id only; until then
\* created_at keeps its value, every turn on the session adds exactly 1 to
\* message_count and appends to the log, and every other step leaves the
\* record as it is.
C20_SessionOnlyGrows ==
    [][\A id \in DOMAIN conversations :
          IF id \notin DOMAIN conversations'
          THEN request'.op = "clear" /\ request'.session_id = id
          ELSE LET old == conversations[id]
                   new == conversations'[id]
               IN  /\ new.created_at = old.created_at
                   /\ IsPrefix(old.messages, new.messages)
                   /\ IF ChatStep /\ ChatId' = id
                      THEN /\ new.message_count = old.message_count + 1
                           /\ Len(new.messages) > Len(old.messages)
                      ELSE new = old
    ]_vars

\* A session that took three turns is still whole after the other stored
\* session was cleared.
C20_Witness ==
    /\ request.op = "clear"
    /\ \E id \in DOMAIN conversations :
           /\ id # request.session_id
           /\ conversations[id].message_count = 3
           /\ Len(conversations[id].messages) = 6
           /\ conversations[id].created_at = 1

-----------------------------------------------------------------------------
(* Properties of overlapping requests.                                      *)

\* No worker is serving a request.
Quiescent == \A t \in Threads : threads[t].pc = "idle"

\* C18: two turns on one session id that overlap race on the counter and on
\* the creation of the session, and the later write wins.  Updates are lost,
\* never invented: once no turn is in flight, a stored session's
\* message_count is at least 1, at most the number of user entries of its
\* log, and these are at most the number of turns served on the id; the
\* witness is a run where the counter is short of both.
C18_LastWriteWins ==
    Quiescent =>
        \A id \in DOMAIN conversations :
            /\ 1 <= conversations[id].message_count
            /\ conversations[id].message_count <= UserEntries(conversations[id].messages)
            /\ id \in DOMAIN turns
            /\ UserEntries(conversations[id].messages) <= Len(turns[id])

\* Two turns on one session have completed; the log holds the user entries of
\* both and message_count is 1.
C18_Witness ==
    /\ Quiescent
    /\ \E id \in DOMAIN conversations :
           /\ Len(turns[id]) = 2
           /\ UserEntries(conversations[id].messages) = 2
           /\ conversations[id].message_count = 1

\* The statements of chat() a worker in flight can run next.
ThreadStep(t) ==
    \/ chat_check(t)
    \/ chat_create(t)
    \/ chat_lookup(t)
    \/ chat_load_count(t)
    \/ chat_store_count(t)
    \/ chat_log_user(t)
    \/ chat_decide(t)
    \/ chat_respond(t)
    \/ chat_log_bot(t)
    \/ chat_return(t)

\* The session ids of the requests that act in a step: the workers whose
\* frame changes, and the id of a history read or a clear.
StepIds ==
    {SessionOf(t) : t \in {u \in Threads : threads'[u] # threads[u]}}
        \cup {Get(threads'[t].data, "session_id", "default") :
                  t \in {u \in Threads : threads'[u] # threads[u]}}
        \cup (IF request'.op \in {"history", "clear"} /\ now' # now
              THEN {request'.session_id} ELSE {})

\* What the serial handler makes of a worker's request, from the session
\* record the request found on arrival.
SerialTurn(t) ==
    LET f            == threads[t]
        session_id   == SessionOf(t)
        found        == IF f.before = None THEN EmptyDict
                        ELSE Put(EmptyDict, session_id, f.before[1])
        session_data == Received(found, session_id, MessageOf(t), f.clock)
        sentiment    == analyze_sentiment(Scored(MessageOf(t), f.polarity))
        out          == Answered(session_data, MessageOf(t), f.rnd, f.clock)
    IN  IF Escalates(sentiment, session_data)
        THEN [session_data |-> session_data,
              reply        |-> [response      |-> EscalationText,
                                sentiment     |-> sentiment,
                                quick_replies |-> EscalationReplies,
                                session_id    |-> session_id]]
        ELSE [session_data |-> out.session_data,
              reply        |-> [response      |-> out.response,
                                intent        |-> out.intent,
                                sentiment     |-> sentiment,
                                quick_replies |-> get_quick_replies(out.intent),
                                name          |-> out.session_data.name,
                                session_id    |-> session_id]]

\* C19: sessions are isolated.  No worker in flight ever waits: its next
\* statement can always run.  A step of a request for one session id leaves
\* every other id as it is, stored with the same record or not stored.  A turn
\* that met no other turn and no clear for its id while in flight, however
\* its statements interleave with requests for other ids, leaves the session
\* record and returns the reply of the handler run serially.
C19_SessionsIsolated ==
    /\ [](\A t \in Threads : threads[t].pc # "idle" => ENABLED ThreadStep(t))
    /\ [][/\ \A id \in SessionIds \ StepIds :
                 /\ id \in DOMAIN conversations <=> id \in DOMAIN conversations'
                 /\ id \in DOMAIN conversations => conversations'[id] = conversations[id]
          /\ \A t \in Threads :
                 (threads[t].pc # "idle" /\ threads'[t].pc = "idle" /\ threads[t].alone)
                     => /\ SessionOf(t) \in DOMAIN conversations'
                        /\ conversations'[SessionOf(t)] = SerialTurn(t).session_data
                        /\ reply' = SerialTurn(t).reply
       ]_vars

\* A turn on s2 arrived after a turn on s1, ran while that one was between
\* the read and the write of its counter, and has returned; the turn on s1
\* is still in flight and has met no other request for s1.
C19_Witness ==
    /\ request.op = "chat"
    /\ ChatId = "s2"
    /\ "intent" \in DOMAIN reply
    /\ "s2" \in DOMAIN conversations
    /\ conversations["s2"].created_at = 1
    /\ \E t \in Threads :
           /\ threads[t].pc = "store"
           /\ SessionOf(t) = "s1"
           /\ threads[t].clock = 0
           /\ threads[t].alone

-----------------------------------------------------------------------------
(* Properties of the name, the order number and the response text.          *)

\* The record a /chat request finds for its session id: the stored one, or
\* the one it creates.
FoundBy(session_id) ==
    IF session_id \in DOMAIN conversations
    THEN conversations[session_id]
    ELSE NewSession(now)

\* C21: a session's name changes only in a turn that does not escalate and
\* whose message yields a name, and is then that name; every other turn, an
\* escalating one with a name introduction included, leaves it as it was, so
\* a name once set is never unset while the session is stored.  last_order
\* changes only in a turn classified order_tracking, to the digits captured.
C21_NameAndOrderFrame ==
    [][ChatStep =>
          LET old       == FoundBy(ChatId')
              new       == conversations'[ChatId']
              name      == Names[ChatMessage']
              escalated == reply'.response = EscalationText
          IN  /\ new.name = IF ~escalated /\ Truthy(name) THEN name ELSE old.name
              /\ old.name # None => new.name # None
              /\ new.last_order # old.last_order =>
                     /\ ~escalated
                     /\ reply'.intent = "order_tracking"
                     /\ new.last_order = OrderNumbers[ChatMessage']
    ]_vars

\* The fourth turn of a session without a name introduces one and escalates:
\* the session still has no name.
C21_Witness ==
    /\ Escalated
    /\ ChatMessage = M_i_am_al
    /\ conversations[ChatId].message_count = 4
    /\ conversations[ChatId].name = None

\* Lines 166-177: the call returns a fixed text before it reaches the pools.
ReturnsEarly(intent, user_message) ==
    \/ intent = "name_intro" /\ Truthy(Names[user_message])
    \/ intent = "order_tracking" /\ Truthy(OrderNumbers[user_message])

\* The texts get_personalized_response builds before the personalization:
\* the name greeting, the order-status text, or the members of the pool of
\* the intent, the 'default' pool for 'default' and for an intent that is
\* not in the catalog.
PlainResponses(catalog, intent, user_message) ==
    IF intent = "name_intro" /\ Truthy(Names[user_message])
    THEN {NameGreetHead \o Names[user_message][1] \o NameGreetTail}
    ELSE IF intent = "order_tracking" /\ Truthy(OrderNumbers[user_message])
    THEN {OrderHead \o OrderNumbers[user_message][1] \o OrderTail}
    ELSE IF intent # "default" /\ InCatalog(catalog, intent)
    THEN Range(Entry(catalog, intent).responses)
    ELSE Range(Entry(catalog, "default").responses)

\* Line 189 applied to each of the texts.
Personalized(name, texts) ==
    {name \o CommaSpace \o LowerFirst(response) : response \in texts}

\* Line 188: the draw of the last /chat request exceeded 0.5.
Drawn == request.draw > PersonalizeThreshold

\* C22 as stated: the response is one of the plain texts, or one of them
\* with the "<name>, " prefix; the prefix needs a known name; and it is
\* applied after any of the cases, the name greeting and the order-status
\* text included, when the name is known and the draw exceeds 0.5.
C22_PrefixAfterAnyCase ==
    AnsweredChat =>
        LET name  == conversations[ChatId].name
            plain == PlainResponses(responses, reply.intent, ChatMessage)
        IN  /\ reply.response \in
                   plain \cup (IF Truthy(name) THEN Personalized(name[1], plain) ELSE {})
            /\ Truthy(name) /\ Drawn => reply.response \in Personalized(name[1], plain)

\* C22, amended: the response is one of the plain texts of its case; the
\* "<name>, " prefix is applied to a pool response only, exactly when the
\* session has a known name and the draw exceeds 0.5; the name greeting and
\* the order-status text are returned as they are, and a session with no
\* name never gets a prefixed response.
C22_PrefixOnPoolResponseOnly ==
    AnsweredChat =>
        LET name     == conversations[ChatId].name
            plain    == PlainResponses(responses, reply.intent, ChatMessage)
            prefixed == /\ ~ReturnsEarly(reply.intent, ChatMessage)
                        /\ Truthy(name)
                        /\ Drawn
        IN  /\ prefixed => reply.response \in Personalized(name[1], plain)
            /\ ~prefixed => reply.response \in plain
            /\ ~prefixed /\ Truthy(name) => reply.response \notin Personalized(name[1], plain)
            /\ ~Truthy(name) => \A other \in {n[1] : n \in Range(Names) \ {None}} :
                                    ~IsPrefix(other \o CommaSpace, reply.response)

\* A turn on a session with a known name, answered from a pool with a draw
\* above 0.5: the response carries the prefix.
C22_Witness ==
    /\ AnsweredChat
    /\ ~ReturnsEarly(reply.intent, ChatMessage)
    /\ Truthy(conversations[ChatId].name)
    /\ Drawn
    /\ IsPrefix(conversations[ChatId].name[1] \o CommaSpace, reply.response)
    /\ reply.response \notin PlainResponses(responses, reply.intent, ChatMessage)

-----------------------------------------------------------------------------
(* Properties of a clear in the middle of a turn.                           *)

\* Worker t is past line 651 and holds a session record that its id no
\* longer refers to: the id was cleared since.
Detached(t) ==
    /\ threads[t].pc \notin {"idle", "check", "create", "lookup"}
    /\ \A id \in DOMAIN index : index[id] # threads[t].ref

\* The session records no id of the store refers to.
Orphans == {r \in DOMAIN heap : \A id \in DOMAIN index : index[id] # r}

\* C23: a clear of a session id after a turn on it has looked up its record
\* does not make the turn fail.  The turn runs on with the record it holds:
\* none of its statements changes the store, it stays cut off from the store,
\* and it returns a normal body, its increment and its log entries being in
\* the record it holds.  The id stays absent from the store: a history read
\* of it returns an empty log and no session data, whatever the cleared
\* record holds, and the next turn on it finds the id absent and stores a
\* fresh record.
C23_ClearDuringTurn ==
    [][/\ \A t \in Threads :
              Detached(t) /\ threads'[t].pc # threads[t].pc =>
                  /\ conversations' = conversations
                  /\ index' = index
                  /\ threads'[t].pc # "idle" => Detached(t)'
                  /\ threads'[t].pc = "idle" =>
                         LET session_data == heap[threads[t].ref]
                         IN  /\ "error" \notin DOMAIN reply'
                             /\ request'.data = threads[t].data
                             /\ reply'.response = threads[t].response
                             /\ reply'.session_id = SessionOf(t)
                             /\ session_data.message_count >= 1
                             /\ \E i \in DOMAIN session_data.messages :
                                    session_data.messages[i] =
                                        LogEntry("user", MessageOf(t), threads[t].clock)
                             /\ \E i \in DOMAIN session_data.messages :
                                    session_data.messages[i] =
                                        LogEntry("bot", threads[t].response,
                                                 threads[t].clock)
       /\ /\ request'.op = "history"
          /\ now' # now
          /\ request'.session_id \notin DOMAIN index
          => reply' = [history |-> <<>>, session_data |-> EmptyDict]
       /\ \A t \in Threads :
              /\ threads[t].pc = "check"
              /\ threads'[t].pc # "check"
              /\ SessionOf(t) \notin DOMAIN index
              => threads'[t].pc = "create"
       /\ \A t \in Threads :
              threads[t].pc = "create" /\ threads'[t].pc # "create" =>
                  /\ conversations'[SessionOf(t)] = NewSession(threads[t].clock)
                  /\ index'[SessionOf(t)] \notin Orphans
    ]_vars

\* A turn and a clear of its id have been served, and nothing else; the turn
\* has returned its body, the id is not in the store, and the record the turn
\* counted and logged in is left behind.
C23_Witness ==
    /\ now = 2
    /\ Quiescent
    /\ request.op = "chat"
    /\ "intent" \in DOMAIN reply
    /\ reply.session_id \notin DOMAIN conversations
    /\ \E r \in Orphans :
           /\ heap[r].message_count = 1
           /\ Len(heap[r].messages) = 2

====
